---------------------------- MODULE Spec2Model ----------------------------
(***************************************************************************)
(* ofxPdGui: the Pure Data patch parser (PdPatchParser), the widget model  *)
(* it builds (PdGuiObject and its subclasses) and subpatch loading         *)
(* (PdSubpatch).                                                           *)
(*                                                                         *)
(* Text.  A line of a patch is a sequence of atoms.  An atom is a string   *)
(* of one or more characters that holds no blank; the one-character atom   *)
(* " " is the blank.  The characters '#' and ';' only occur as the atoms   *)
(* "#" and ";".  A token is the sequence of atoms between two blanks.      *)
(*                                                                         *)
(* Numbers.  A float is an integer count of thousandths (1.0 is 1000), so  *)
(* that the 0.001 dead band of PdGuiObject::setValue is the integer 1.     *)
(***************************************************************************)
EXTENDS Integers, Sequences, FiniteSets, TLC

VARIABLES
    disk,      \* what describes the files of bin/data (see Files)
    stack,     \* the parseFile activations in progress, innermost last
    results,   \* what the finished top-level parseFile calls returned
    fault,     \* "none", or how the process died
    hexIn,     \* argument of the parseHexColor call under study
    hexOut,    \* what that call returned
    guiObjects,   \* ofApp::guiObjects once setup has bound the callbacks
    mouseEvents,  \* how many events ofApp has delivered
    splitIn,      \* argument of the splitString call under study
    splitOut,     \* what that call returned
    clock,        \* the time since the start of the application, in ms
    lastEvent     \* the last event ofApp got, as <<name, argument>>

vars == <<disk, stack, results, fault, hexIn, hexOut, guiObjects, mouseEvents,
          splitIn, splitOut, clock, lastEvent>>

-----------------------------------------------------------------------------
(* Bounds of the model *)

\* top-level parseFile calls the host makes
MaxParses == 2

\* nested parseFile activations before the stack is spent
MaxDepth == 3

-----------------------------------------------------------------------------
(* Sequences and text helpers *)

Sp == " "

Last(s) == s[Len(s)]

Front(s) == SubSeq(s, 1, Len(s) - 1)

Take(s, n) == SubSeq(s, 1, IF n < Len(s) THEN n ELSE Len(s))

RECURSIVE Str(_)
\* the std::string a token stands for
Str(tok) == IF tok = <<>> THEN "" ELSE tok[1] \o Str(Tail(tok))

RECURSIVE CharLen(_)
\* std::string::length of a token
CharLen(tok) == IF tok = <<>> THEN 0 ELSE Len(tok[1]) + CharLen(Tail(tok))

RECURSIVE Join(_)
\* the line made of the given tokens, one blank between two tokens
Join(toks) ==
    IF toks = <<>> THEN <<>>
    ELSE IF Len(toks) = 1 THEN toks[1]
    ELSE toks[1] \o <<Sp>> \o Join(Tail(toks))

StartsWith(line, prefix) ==
    /\ Len(line) >= Len(prefix)
    /\ SubSeq(line, 1, Len(prefix)) = prefix

-----------------------------------------------------------------------------
(* openFrameworks utilities the parser calls *)

\* the decimal literals of the modelled patches, in thousandths
LitValue ==
    ("0" :> 0) @@ ("1" :> 1000) @@ ("2" :> 2000) @@ ("5" :> 5000) @@
    ("10" :> 10000) @@ ("12" :> 12000) @@ ("15" :> 15000) @@
    ("20" :> 20000) @@ ("40" :> 40000) @@ ("50" :> 50000) @@
    ("100" :> 100000) @@ ("127" :> 127000) @@ ("128" :> 128000) @@
    ("0.001" :> 1) @@ ("0.5" :> 500) @@ ("2.5" :> 2500) @@
    ("-1" :> -1000) @@ ("-2" :> -2000) @@ ("-8" :> -8000) @@
    ("-10" :> -10000) @@ ("19" :> 19000) @@ ("76" :> 76000) @@
    ("126" :> 126000) @@ ("60" :> 60000) @@ ("30" :> 30000)

\* ofToFloat: istringstream >> float reads the longest numeric prefix of the
\* string and yields 0 when there is none; it never throws
ofToFloat(tok) ==
    IF tok # <<>> /\ tok[1] \in DOMAIN LitValue THEN LitValue[tok[1]] ELSE 0

\* ofClamp(value, min, max)
ofClamp(value, min, max) ==
    IF value < min THEN min ELSE IF value > max THEN max ELSE value

Abs(x) == IF x < 0 THEN -x ELSE x

\* ofToString(float): the shortest decimal text of the value
ofToString(v) ==
    IF \E a \in DOMAIN LitValue : LitValue[a] = v
    THEN CHOOSE a \in DOMAIN LitValue : LitValue[a] = v
    ELSE "?"

-----------------------------------------------------------------------------
(* The widget model: PdGuiObject and its subclasses *)

Vec(x, y) == <<x, y>>

NoColor == <<>>

\* PdGuiObject::PdGuiObject: the fields every widget has.  The fields of the
\* subclasses are present in every record, unset here.  A callback is named
\* by who made it: "noop" is the empty lambda of this constructor.  `calls`
\* is not a member: it records, oldest first, every call the widget made of
\* one of its callbacks, as <<callback, symbol, value>>.  Nor is
\* `triggeredAt`: it is the clock at the last trigger() of a bang, -1 before.
PdGuiObject(type, position, size, sendSymbol, receiveSymbol) ==
    [ type          |-> type,
      position      |-> position,
      size          |-> size,
      sendSymbol    |-> sendSymbol,
      receiveSymbol |-> receiveSymbol,
      currentValue  |-> 0,
      minValue      |-> 0,
      maxValue      |-> 127000,
      visible       |-> TRUE,
      enabled       |-> TRUE,
      mousePressed  |-> FALSE,
      isDragging    |-> FALSE,
      isDraggingKnob |-> FALSE,
      mousePressPos |-> Vec(0, 0),
      dragOffset    |-> Vec(0, 0),
      dragStartValue |-> 0,
      dragStartY    |-> 0,
      isDraggingValue |-> FALSE,
      triggered     |-> FALSE,
      triggerTime   |-> 0,
      triggeredAt   |-> -1,
      onSendToPd    |-> "noop",
      onSendToPdString |-> "noop",
      calls         |-> <<>>,
      displayPrecision |-> 0,
      canvasLabel   |-> "",
      backgroundColor |-> NoColor,
      textColor     |-> NoColor,
      subpatchPath  |-> "",
      offset        |-> Vec(0, 0),
      children      |-> <<>> ]

\* PdGuiObject::setValue: clamp, then store only past the 0.001 dead band
setValue(w, value) ==
    LET clampedValue == ofClamp(value, w.minValue, w.maxValue)
    IN  IF Abs(w.currentValue - clampedValue) > 1
        THEN [w EXCEPT !.currentValue = clampedValue]
        ELSE w

\* PdGuiObject::setValueRange
setValueRange(w, min, max) ==
    setValue([w EXCEPT !.minValue = min, !.maxValue = max], w.currentValue)

\* a send with no test of the send symbol
sendUnguarded(w, value) ==
    [w EXCEPT !.calls = Append(@, <<w.onSendToPd, w.sendSymbol, value>>)]

\* PdGuiObject::sendToPd(float)
sendToPd(w, value) ==
    IF w.sendSymbol # "" /\ w.sendSymbol # "empty"
    THEN [w EXCEPT !.calls = Append(@, <<w.onSendToPd, w.sendSymbol, value>>)]
    ELSE w

\* PdSlider::setSliderValue: setValue, then a send if the value moved
setSliderValue(w, value) ==
    LET after == setValue(w, value)
    IN  IF Abs(after.currentValue - w.currentValue) > 1
        THEN sendToPd(after, after.currentValue)
        ELSE after

\* PdToggle::PdToggle
PdToggle(position, size, sendSymbol, receiveSymbol) ==
    [PdGuiObject("TOGGLE", position, size, sendSymbol, receiveSymbol)
        EXCEPT !.minValue = 0, !.maxValue = 1000, !.currentValue = 0]

\* PdBang::PdBang
PdBang(position, size, sendSymbol, receiveSymbol) ==
    [PdGuiObject("BANG", position, size, sendSymbol, receiveSymbol)
        EXCEPT !.minValue = 0, !.maxValue = 1000, !.currentValue = 0]

\* a slider constructor that sets its initial value the way a drag does
PdSliderSending(type, position, size, sendSymbol, receiveSymbol, min, max, initialValue) ==
    setSliderValue(setValueRange(
                       PdGuiObject(type, position, size, sendSymbol, receiveSymbol),
                       min, max),
                   initialValue)

\* PdSlider::PdSlider
PdSlider(type, position, size, sendSymbol, receiveSymbol, min, max, initialValue) ==
    setValue(setValueRange(
                 PdGuiObject(type, position, size, sendSymbol, receiveSymbol),
                 min, max),
             initialValue)

\* PdNumberBox::PdNumberBox
PdNumberBox(position, size, sendSymbol, receiveSymbol, min, max, initialValue, precision) ==
    setValue(setValueRange(
                 [PdGuiObject("NUMBER_BOX", position, size, sendSymbol, receiveSymbol)
                     EXCEPT !.displayPrecision = precision],
                 min, max),
             initialValue)

\* PdCanvas::PdCanvas
PdCanvas(position, size, label, backgroundColor, textColor) ==
    [PdGuiObject("UNKNOWN", position, size, "empty", "empty")
        EXCEPT !.canvasLabel = label,
               !.backgroundColor = backgroundColor,
               !.textColor = textColor,
               !.enabled = FALSE,
               !.visible = TRUE]

\* PdSubpatch::PdSubpatch, up to its call of loadSubpatch
PdSubpatch(position, size, sendSymbol, receiveSymbol, subpatchPath, offsetX, offsetY) ==
    [PdGuiObject("SUBPATCH", position, size, sendSymbol, receiveSymbol)
        EXCEPT !.subpatchPath = subpatchPath,
               !.offset = Vec(offsetX, offsetY)]

\* addChild without the translation of the child
addChildUntranslated(sub, child) ==
    [sub EXCEPT !.children =
        Append(@, [child EXCEPT !.onSendToPd = sub.onSendToPd,
                         !.onSendToPdString = sub.onSendToPdString])]

\* addChild that puts the child in front
addChildInFront(sub, child) ==
    [sub EXCEPT !.children =
        <<[child EXCEPT
              !.position = Vec(child.position[1] + sub.offset[1],
                               child.position[2] + sub.offset[2]),
              !.onSendToPd = sub.onSendToPd,
              !.onSendToPdString = sub.onSendToPdString]>> \o @]

\* PdSubpatch::addChild: translate the child by the offset, hand it the
\* callbacks the subpatch holds at this moment, append it
addChild(sub, child) ==
    [sub EXCEPT !.children =
        Append(@, [child EXCEPT
                      !.position = Vec(child.position[1] + sub.offset[1],
                                       child.position[2] + sub.offset[2]),
                      !.onSendToPd = sub.onSendToPd,
                      !.onSendToPdString = sub.onSendToPdString])]

RECURSIVE addChildren(_, _)
\* the loop of PdSubpatch::loadSubpatch over what parseFile returned
addChildren(sub, subpatchObjects) ==
    IF subpatchObjects = <<>> THEN sub
    ELSE addChildren(addChild(sub, subpatchObjects[1]), Tail(subpatchObjects))

RECURSIVE Flatten(_)
\* every widget of a collection, the children of subpatches included
Flatten(objs) ==
    IF objs = <<>> THEN <<>>
    ELSE <<objs[1]>> \o Flatten(objs[1].children) \o Flatten(Tail(objs))

-----------------------------------------------------------------------------
(* The widgets under the mouse *)

\* ofRectangle::inside of the rectangle at (x, y) of size w by h: the edges
\* are outside
inside(x, y, w, h, point) ==
    /\ point[1] > x /\ point[1] < x + w
    /\ point[2] > y /\ point[2] < y + h

\* PdGuiObject::isPointInside: getBounds().inside(point)
isPointInside(w, point) ==
    inside(w.position[1], w.position[2], w.size[1], w.size[2], point)

\* PdGuiObject::globalToLocal
globalToLocal(w, globalPos) ==
    Vec(globalPos[1] - w.position[1], globalPos[2] - w.position[2])

\* PdGuiObject::onMousePressed, as <<handled, the widget afterwards>>
baseMousePressed(w, point) ==
    IF ~ w.visible \/ ~ w.enabled THEN <<FALSE, w>>
    ELSE IF isPointInside(w, point)
         THEN <<TRUE, [w EXCEPT !.mousePressed = TRUE, !.mousePressPos = point]>>
    ELSE <<FALSE, w>>

\* a press that marks the widget pressed and leaves its value alone
pressOnly(w, point) == baseMousePressed(w, point)

\* PdToggle::isOn
isOn(w) == w.currentValue > 500

\* PdToggle::toggle: setOn(!isOn())
toggle(w) == setValue(w, IF isOn(w) THEN 0 ELSE 1000)

\* PdToggle::onMousePressed
toggleMousePressed(w, point) ==
    LET base == baseMousePressed(w, point)
    IN  IF base[1]
        THEN LET flipped == toggle(base[2])
             IN  <<TRUE, sendToPd(flipped, flipped.currentValue)>>
        ELSE base

\* ofGetElapsedTimeMillis(): a uint64_t
ofGetElapsedTimeMillis == clock

RECURSIVE Ulp(_)
\* the distance between the floats around n: 1 below 2^24, doubled with
\* every further bit
Ulp(n) == IF n < 16777216 THEN 1 ELSE 2 * Ulp(n \div 2)

\* the conversion of a uint64_t to float: the nearest number with 24
\* significant bits, a tie going to the even one
toFloat(n) ==
    LET u == Ulp(n)
        lo == (n \div u) * u
        r == n - lo
    IN  IF 2 * r < u THEN lo
        ELSE IF 2 * r > u THEN lo + u
        ELSE IF (lo \div u) % 2 = 0 THEN lo ELSE lo + u

\* PdBang::TRIGGER_DURATION
TRIGGER_DURATION == 300

\* PdBang::trigger: triggerTime is a float
trigger(w) ==
    [w EXCEPT !.triggered = TRUE,
              !.triggerTime = toFloat(ofGetElapsedTimeMillis),
              !.triggeredAt = clock]

\* PdBang::update: currentTime is a float
bangUpdate(w) ==
    LET currentTime == toFloat(ofGetElapsedTimeMillis)
    IN  IF w.triggered /\ currentTime - w.triggerTime >= TRIGGER_DURATION
        THEN [w EXCEPT !.triggered = FALSE]
        ELSE w

RECURSIVE update(_)
\* the virtual update of a widget: a bang times out, a subpatch updates its
\* visible and enabled children, the other widgets do nothing
update(w) ==
    CASE w.type = "BANG" -> bangUpdate(w)
      [] w.type = "SUBPATCH" ->
            [w EXCEPT !.children =
                [i \in 1..Len(w.children) |->
                    IF w.children[i].visible /\ w.children[i].enabled
                    THEN update(w.children[i])
                    ELSE w.children[i]]]
      [] OTHER -> w

\* PdBang::onMousePressed: trigger(), then a send of 1
bangMousePressed(w, point) ==
    LET base == baseMousePressed(w, point)
    IN  IF base[1]
        THEN <<TRUE, sendToPd(trigger(base[2]), 1000)>>
        ELSE base

\* the knob of a slider is 8 wide: PdSlider::knobSize
knobSize == 8000

\* PdSlider::getTrackBounds, in the slider's own coordinates, as <<x, y, w, h>>
getTrackBounds(w) ==
    LET margin == knobSize \div 2 + 2000
    IN  IF w.type = "HORIZONTAL_SLIDER"
        THEN <<margin, (w.size[2] * 4) \div 10, w.size[1] - 2 * margin, (w.size[2] * 2) \div 10>>
        ELSE <<(w.size[1] * 4) \div 10, margin, (w.size[1] * 2) \div 10, w.size[2] - 2 * margin>>

\* PdSlider::positionToValue.  A track of no length makes the quotient no
\* number, which ofClamp hands on and setValue then drops: the value of the
\* slider stays, as it does here.
positionToValue(w, localPos) ==
    LET track == getTrackBounds(w)
        raw == IF w.type = "HORIZONTAL_SLIDER"
               THEN IF track[3] = 0 THEN 0
                    ELSE ((localPos[1] - track[1]) * 1000) \div track[3]
               ELSE IF track[4] = 0 THEN 0
                    ELSE 1000 - ((localPos[2] - track[2]) * 1000) \div track[4]
        normalizedValue == ofClamp(raw, 0, 1000)
    IN  IF (w.type = "HORIZONTAL_SLIDER" /\ track[3] = 0)
           \/ (w.type # "HORIZONTAL_SLIDER" /\ track[4] = 0)
        THEN w.currentValue
        ELSE w.minValue + (normalizedValue * (w.maxValue - w.minValue)) \div 1000

\* PdSlider::getKnobPosition, for a slider with minValue # maxValue
getKnobPosition(w) ==
    LET track == getTrackBounds(w)
        normalizedValue ==
            ((w.currentValue - w.minValue) * 1000) \div (w.maxValue - w.minValue)
    IN  IF w.type = "HORIZONTAL_SLIDER"
        THEN Vec(track[1] + (normalizedValue * track[3]) \div 1000,
                 track[2] + track[4] \div 2)
        ELSE Vec(track[1] + track[3] \div 2,
                 track[2] + track[4] - (normalizedValue * track[4]) \div 1000)

\* PdSlider::getKnobBounds holds the point.  With minValue = maxValue the
\* knob position is no number and no point is inside.
inKnobBounds(w, localPos) ==
    IF w.maxValue = w.minValue THEN FALSE
    ELSE LET knobPos == getKnobPosition(w)
         IN  inside(knobPos[1] - knobSize \div 2, knobPos[2] - knobSize \div 2,
                    knobSize, knobSize, localPos)

\* PdSlider::onMousePressed: a press on the knob grabs it, a press on the
\* track moves the knob there
sliderMousePressed(w, point) ==
    IF ~ w.visible \/ ~ w.enabled THEN <<FALSE, w>>
    ELSE IF ~ isPointInside(w, point) THEN <<FALSE, w>>
    ELSE LET localMousePos == globalToLocal(w, point)
             held == [w EXCEPT !.mousePressed = TRUE, !.mousePressPos = point,
                               !.isDraggingKnob = TRUE, !.dragOffset = Vec(0, 0)]
         IN  IF inKnobBounds(w, localMousePos)
             THEN <<TRUE, [held EXCEPT !.dragOffset =
                              Vec(localMousePos[1] - getKnobPosition(w)[1],
                                  localMousePos[2] - getKnobPosition(w)[2])]>>
             ELSE <<TRUE, setSliderValue(held, positionToValue(held, localMousePos))>>

\* PdNumberBox::onMousePressed: the press readies a drag of the value
numberBoxMousePressed(w, point) ==
    IF ~ w.visible \/ ~ w.enabled THEN <<FALSE, w>>
    ELSE IF ~ isPointInside(w, point) THEN <<FALSE, w>>
    ELSE <<TRUE, [w EXCEPT !.mousePressed = TRUE, !.mousePressPos = point,
                           !.dragStartValue = w.currentValue,
                           !.dragStartY = point[2],
                           !.isDraggingValue = FALSE]>>

\* PdSubpatch::findChildAt: the index of the first child that holds the
\* point, 0 when there is none
findChildAt(w, point) ==
    LET at == { i \in 1..Len(w.children) : isPointInside(w.children[i], point) }
    IN  IF at = {} THEN 0 ELSE CHOOSE i \in at : \A j \in at : i <= j

RECURSIVE onMousePressed(_, _)
\* the virtual onMousePressed of a widget, as <<handled, the widget
\* afterwards>>.  A PdCanvas handles nothing; a PdSubpatch hands the event
\* to the child under the point.
onMousePressed(w, point) ==
    CASE w.type = "TOGGLE" -> toggleMousePressed(w, point)
      [] w.type = "BANG" -> bangMousePressed(w, point)
      [] w.type \in {"HORIZONTAL_SLIDER", "VERTICAL_SLIDER"} -> sliderMousePressed(w, point)
      [] w.type = "NUMBER_BOX" -> numberBoxMousePressed(w, point)
      [] w.type = "UNKNOWN" -> <<FALSE, w>>
      [] w.type = "SUBPATCH" ->
            LET i == findChildAt(w, point)
            IN  IF i # 0 /\ w.children[i].enabled
                THEN LET r == onMousePressed(w.children[i], point)
                     IN  <<r[1], [w EXCEPT !.children[i] = r[2]]>>
                ELSE <<FALSE, w>>
      [] OTHER -> baseMousePressed(w, point)

RECURSIVE pressFirst(_, _)
\* the loop of ofApp::mousePressed: the widgets in order, up to the first
\* that handles the event
pressFirst(objs, point) ==
    IF objs = <<>> THEN <<>>
    ELSE LET r == onMousePressed(objs[1], point)
         IN  IF r[1] THEN <<r[2]>> \o Tail(objs)
             ELSE <<r[2]>> \o pressFirst(Tail(objs), point)

\* PdGuiObject::onMouseDragged: a drag starts more than 3 away from the press
baseMouseDragged(w, point) ==
    IF ~ w.visible \/ ~ w.enabled \/ ~ w.mousePressed THEN <<FALSE, w>>
    ELSE LET dx == w.mousePressPos[1] - point[1]
             dy == w.mousePressPos[2] - point[2]
             dragging == \/ w.isDragging
                         \/ Abs(dx) > 3000
                         \/ Abs(dy) > 3000
                         \/ dx * dx + dy * dy > 3000 * 3000
         IN  IF dragging THEN <<TRUE, [w EXCEPT !.isDragging = TRUE]>>
             ELSE <<FALSE, w>>

\* PdSlider::onMouseDragged
sliderMouseDragged(w, point) ==
    IF ~ w.visible \/ ~ w.enabled \/ ~ w.mousePressed \/ ~ w.isDraggingKnob
    THEN <<FALSE, w>>
    ELSE LET localMousePos == globalToLocal(w, point)
             adjustedPos == Vec(localMousePos[1] - w.dragOffset[1],
                                localMousePos[2] - w.dragOffset[2])
         IN  <<TRUE, setSliderValue(w, positionToValue(w, adjustedPos))>>

\* round() to a multiple of unit, halves away from zero
roundTo(v, unit) ==
    IF v >= 0 THEN ((v + unit \div 2) \div unit) * unit
    ELSE -(((-v + unit \div 2) \div unit) * unit)

\* PdNumberBox::setNumberValue: setValue, then a send if the value moved
setNumberValue(w, value) ==
    LET after == setValue(w, value)
    IN  IF Abs(after.currentValue - w.currentValue) > 1
        THEN sendToPd(after, after.currentValue)
        ELSE after

\* PdNumberBox::updateValueFromDrag: half a unit for each pixel upwards,
\* rounded to the precision shown (0 or 2 decimals)
updateValueFromDrag(w, currentY) ==
    LET deltaY == w.dragStartY - currentY
        valueDelta == (deltaY * 5) \div 10
        newValue == w.dragStartValue + valueDelta
    IN  setNumberValue(w, IF w.displayPrecision = 0
                          THEN roundTo(newValue, 1000)
                          ELSE roundTo(newValue, 10))

\* PdNumberBox::onMouseDragged: the value follows once the pointer is more
\* than 2 above or below the press
numberBoxMouseDragged(w, point) ==
    IF ~ w.visible \/ ~ w.enabled \/ ~ w.mousePressed THEN <<FALSE, w>>
    ELSE LET dragging == w.isDraggingValue \/ Abs(point[2] - w.dragStartY) > 2000
         IN  IF dragging
             THEN <<TRUE, updateValueFromDrag([w EXCEPT !.isDraggingValue = TRUE],
                                              point[2])>>
             ELSE <<FALSE, w>>

RECURSIVE onMouseDragged(_, _)
\* the virtual onMouseDragged of a widget
onMouseDragged(w, point) ==
    CASE w.type \in {"HORIZONTAL_SLIDER", "VERTICAL_SLIDER"} -> sliderMouseDragged(w, point)
      [] w.type = "NUMBER_BOX" -> numberBoxMouseDragged(w, point)
      [] w.type = "UNKNOWN" -> <<FALSE, w>>
      [] w.type = "SUBPATCH" ->
            LET i == findChildAt(w, point)
            IN  IF i # 0 /\ w.children[i].enabled
                THEN LET r == onMouseDragged(w.children[i], point)
                     IN  <<r[1], [w EXCEPT !.children[i] = r[2]]>>
                ELSE <<FALSE, w>>
      [] OTHER -> baseMouseDragged(w, point)

\* PdGuiObject::onMouseReleased
baseMouseReleased(w, point) ==
    IF ~ w.visible \/ ~ w.enabled THEN <<FALSE, w>>
    ELSE <<w.mousePressed, [w EXCEPT !.mousePressed = FALSE, !.isDragging = FALSE]>>

\* PdSlider::onMouseReleased
sliderMouseReleased(w, point) ==
    LET base == baseMouseReleased(w, point)
    IN  IF w.mousePressed
        THEN <<base[1], [base[2] EXCEPT !.isDraggingKnob = FALSE,
                                        !.dragOffset = Vec(0, 0)]>>
        ELSE base

\* PdNumberBox::onMouseReleased
numberBoxMouseReleased(w, point) ==
    <<w.mousePressed, [w EXCEPT !.mousePressed = FALSE, !.isDraggingValue = FALSE]>>

RECURSIVE onMouseReleased(_, _)
\* the virtual onMouseReleased of a widget
onMouseReleased(w, point) ==
    CASE w.type \in {"HORIZONTAL_SLIDER", "VERTICAL_SLIDER"} -> sliderMouseReleased(w, point)
      [] w.type = "NUMBER_BOX" -> numberBoxMouseReleased(w, point)
      [] w.type = "UNKNOWN" -> <<FALSE, w>>
      [] w.type = "SUBPATCH" ->
            LET i == findChildAt(w, point)
            IN  IF i # 0 /\ w.children[i].enabled
                THEN LET r == onMouseReleased(w.children[i], point)
                     IN  <<r[1], [w EXCEPT !.children[i] = r[2]]>>
                ELSE <<FALSE, w>>
      [] OTHER -> baseMouseReleased(w, point)

\* the loop of ofApp::mouseDragged: every widget gets the event
dragAll(objs, point) ==
    [i \in 1..Len(objs) |-> onMouseDragged(objs[i], point)[2]]

\* the loop of ofApp::mouseReleased: every widget gets the event
releaseAll(objs, point) ==
    [i \in 1..Len(objs) |-> onMouseReleased(objs[i], point)[2]]

\* the loop of ofApp::update
updateAll(objs) ==
    [i \in 1..Len(objs) |-> update(objs[i])]

\* the loops of ofApp::keyPressed for 'r' and 'a': setValue on every widget
setValueAll(objs, value) ==
    [i \in 1..Len(objs) |-> setValue(objs[i], value)]

\* PdSubpatch::transformChildrenCoordinates: the offset is added to the
\* position every child has now
transformChildrenCoordinates(sub) ==
    [sub EXCEPT !.children =
        [i \in 1..Len(sub.children) |->
            [sub.children[i] EXCEPT
                !.position = Vec(sub.children[i].position[1] + sub.offset[1],
                                 sub.children[i].position[2] + sub.offset[2])]]]

\* PdSubpatch::setOffset
setOffset(sub, x, y) ==
    transformChildrenCoordinates([sub EXCEPT !.offset = Vec(x, y)])

-----------------------------------------------------------------------------
(* PdPatchParser *)

RECURSIVE splitFrom(_, _, _)
\* the getline loop of splitString: cur is the token being read
splitFrom(str, delimiter, cur) ==
    IF str = <<>>
    THEN IF cur = <<>> THEN <<>> ELSE <<cur>>
    ELSE IF str[1] = delimiter
         THEN IF cur = <<>>
              THEN splitFrom(Tail(str), delimiter, <<>>)
              ELSE <<cur>> \o splitFrom(Tail(str), delimiter, <<>>)
         ELSE splitFrom(Tail(str), delimiter, Append(cur, str[1]))

\* PdPatchParser::splitString
splitString(str, delimiter) == splitFrom(str, delimiter, <<>>)

\* tokens[i] of the C++ code (0-based) 
Tok(tokens, i) == tokens[i + 1]

HexDigit == ("0" :> 0) @@ ("4" :> 4) @@ ("f" :> 15)

\* std::stoi(s, nullptr, 16) on a string of two characters: the value of the
\* longest prefix of hex digits as <<v>>, and <<>> when it throws
\* std::invalid_argument because the first character is no digit
stoi16(c1, c2) ==
    IF c1 \notin DOMAIN HexDigit THEN <<>>
    ELSE IF c2 \notin DOMAIN HexDigit THEN <<HexDigit[c1]>>
    ELSE <<16 * HexDigit[c1] + HexDigit[c2]>>

Gray == <<128, 128, 128>>

\* PdPatchParser::parseHexColor, on a string spelled one character per atom
parseHexColor(hexStr) ==
    IF CharLen(hexStr) < 7 \/ hexStr[1] # "#" THEN Gray
    ELSE LET hex == Tail(hexStr)
         IN  IF CharLen(hex) # 6 THEN Gray
             ELSE LET r == stoi16(hex[1], hex[2])
                      g == stoi16(hex[3], hex[4])
                      b == stoi16(hex[5], hex[6])
                  IN  IF <<>> \in {r, g, b} THEN Gray
                      ELSE <<r[1], g[1], b[1]>>

\* what parseLine hands back: nullptr, a finished widget, a PdSubpatch whose
\* constructor has yet to load its file, or no return at all
NoWidget == PdGuiObject("NONE", Vec(0, 0), Vec(0, 0), "", "")

Nullptr == [tag |-> "none", obj |-> NoWidget]

Made(w) == [tag |-> "obj", obj |-> w]

Loading(w) == [tag |-> "sub", obj |-> w]

Crashed == [tag |-> "crash", obj |-> NoWidget]

\* the channel test with the sentinel of the number boxes
noChannelDash(sendSym, receiveSym) ==
    sendSym = <<"-">> /\ receiveSym = <<"-">>

\* the channel test that takes both sentinels for "no channel"
noChannelEither(sendSym, receiveSym) ==
    /\ sendSym \in {<<"empty">>, <<"-">>}
    /\ receiveSym \in {<<"empty">>, <<"-">>}

\* the test "no send and no receive" of the slider, toggle and bang parsers
noChannel(sendSym, receiveSym) ==
    sendSym = <<"empty">> /\ receiveSym = <<"empty">>

\* the shared body of parseHorizontalSlider and parseVerticalSlider
parseSlider(type, tokens, pos) ==
    IF Len(tokens) < 12 THEN Nullptr
    ELSE LET sendSym == Tok(tokens, 10)
             receiveSym == Tok(tokens, 11)
         IN  IF noChannel(sendSym, receiveSym) THEN Nullptr
             ELSE LET size == Vec(ofToFloat(Tok(tokens, 5)), ofToFloat(Tok(tokens, 6)))
                      minVal == ofToFloat(Tok(tokens, 7))
                      maxVal == ofToFloat(Tok(tokens, 8))
                      initialValue ==
                          IF Len(tokens) > 20
                          THEN ofClamp(ofToFloat(Last(tokens)), minVal, maxVal)
                          ELSE minVal
                  IN  Made(PdSlider(type, pos, size, Str(sendSym), Str(receiveSym),
                                    minVal, maxVal, initialValue))

\* PdPatchParser::parseHorizontalSlider
parseHorizontalSlider(tokens, pos) == parseSlider("HORIZONTAL_SLIDER", tokens, pos)

\* PdPatchParser::parseVerticalSlider
parseVerticalSlider(tokens, pos) == parseSlider("VERTICAL_SLIDER", tokens, pos)

\* PdPatchParser::parseToggle
parseToggle(tokens, pos) ==
    IF Len(tokens) < 10 THEN Nullptr
    ELSE LET sendSym == Tok(tokens, 8)
             receiveSym == Tok(tokens, 9)
         IN  IF noChannel(sendSym, receiveSym) THEN Nullptr
             ELSE LET size == Vec(ofToFloat(Tok(tokens, 5)), ofToFloat(Tok(tokens, 5)))
                  IN  Made(PdToggle(pos, size, Str(sendSym), Str(receiveSym)))

\* PdPatchParser::parseBang
parseBang(tokens, pos) ==
    IF Len(tokens) < 9 THEN Nullptr
    ELSE LET sendSym == Tok(tokens, 7)
             receiveSym == Tok(tokens, 8)
         IN  IF noChannel(sendSym, receiveSym) THEN Nullptr
             ELSE LET size == Vec(ofToFloat(Tok(tokens, 5)), ofToFloat(Tok(tokens, 5)))
                  IN  Made(PdBang(pos, size, Str(sendSym), Str(receiveSym)))

DefaultRangeMin == -1000000000

DefaultRangeMax == 1000000000

\* the range test with "or" for "and"
numberBoxRangeEither(minVal, maxVal) ==
    IF minVal = 0 \/ maxVal = 0
    THEN <<DefaultRangeMin, DefaultRangeMax>>
    ELSE <<minVal, maxVal>>

\* the range parseNumberBox keeps: 0/0 stands for "no bounds"
numberBoxRange(minVal, maxVal) ==
    IF minVal = 0 /\ maxVal = 0
    THEN <<DefaultRangeMin, DefaultRangeMax>>
    ELSE <<minVal, maxVal>>

\* PdPatchParser::parseNumberBox
parseNumberBox(tokens, pos) ==
    IF Len(tokens) < 7 THEN Nullptr
    ELSE LET size == Vec((ofToFloat(Tok(tokens, 4)) * 8), 20000)
             range == numberBoxRange(ofToFloat(Tok(tokens, 5)),
                                     ofToFloat(Tok(tokens, 6)))
             minVal == range[1]
             maxVal == range[2]
             send0 == IF Len(tokens) > 9 /\ Tok(tokens, 9) # <<"-">>
                      THEN Str(Tok(tokens, 9)) ELSE ""
             recv0 == IF Len(tokens) > 10 /\ Tok(tokens, 10) # <<"-">>
                      THEN Str(Tok(tokens, 10)) ELSE ""
             generic == "floatatom-" \o ofToString(pos[1]) \o "-" \o ofToString(pos[2])
             sendSym == IF send0 = "" /\ recv0 = "" THEN generic ELSE send0
             receiveSym == IF send0 = "" /\ recv0 = "" THEN generic ELSE recv0
             lastToken == IF Last(Last(tokens)) = ";"
                          THEN Front(Last(tokens)) ELSE Last(tokens)
             initialValue == IF Len(tokens) > 11
                             THEN ofClamp(ofToFloat(lastToken), minVal, maxVal)
                             ELSE 0
             precision == IF initialValue % 1000 = 0 THEN 0 ELSE 2
         IN  Made(PdNumberBox(pos, size, sendSym, receiveSym,
                              minVal, maxVal, initialValue, precision))

DefaultBackground == <<224, 224, 224>>

DefaultText == <<0, 0, 0>>

\* the colour parseCanvas keeps for the token at index i
canvasColor(tokens, i, default) ==
    IF Len(tokens) > i
    THEN LET colorStr == Tok(tokens, i)
         IN  IF CharLen(colorStr) > 1 /\ colorStr[1] = "#"
             THEN parseHexColor(colorStr)
             ELSE default
    ELSE default

\* PdPatchParser::parseCanvas.  With exactly 7 tokens the read of tokens[7]
\* is past the end of the vector: ub is what that read does, <<>> for a
\* crash and <<v>> for the float the stray bytes convert to
parseCanvas(tokens, pos, ub) ==
    IF Len(tokens) < 7 THEN Nullptr
    ELSE IF Len(tokens) = 7 /\ ub = <<>> THEN Crashed
    ELSE LET width == ofToFloat(Tok(tokens, 6))
             height == IF Len(tokens) = 7 THEN ub[1] ELSE ofToFloat(Tok(tokens, 7))
             label == IF Len(tokens) > 10 /\ Tok(tokens, 10) # <<"empty">>
                      THEN Str(Tok(tokens, 10)) ELSE ""
         IN  Made(PdCanvas(pos, Vec(width, height), label,
                           canvasColor(tokens, 15, DefaultBackground),
                           canvasColor(tokens, 16, DefaultText)))

\* PdPatchParser::parseSubpatch, up to the call of the PdSubpatch constructor
parseSubpatch(tokens, pos) ==
    IF Len(tokens) < 5 THEN Nullptr
    ELSE IF ~ \/ (Tok(tokens, 3) = <<"pd">> /\ Len(tokens) > 4)
              \/ (Tok(tokens, 4) = <<"pd">> /\ Len(tokens) > 5)
         THEN Nullptr
         ELSE LET subpatchName ==
                      IF Tok(tokens, 3) = <<"pd">> /\ Len(tokens) > 4
                      THEN Str(Tok(tokens, 4)) ELSE Str(Tok(tokens, 5))
              IN  Loading(PdSubpatch(pos, Vec(100000, 100000),
                                     subpatchName \o "_send",
                                     subpatchName \o "_receive",
                                     subpatchName \o ".pd",
                                     pos[1], pos[2]))

PrefixObj == <<"#", "X", Sp, "obj">>

PrefixFloatatom == <<"#", "X", Sp, "floatatom">>

PrefixRestore == <<"#", "X", Sp, "restore">>

\* the "#X obj" branch of parseLine
parseObj(tokens, ub) ==
    IF Len(tokens) < 5 THEN Nullptr
    ELSE LET pos == Vec(ofToFloat(Tok(tokens, 2)), ofToFloat(Tok(tokens, 3)))
             type == Tok(tokens, 4)
         IN  CASE type = <<"hsl">> -> parseHorizontalSlider(tokens, pos)
               [] type = <<"vsl">> -> parseVerticalSlider(tokens, pos)
               [] type = <<"tgl">> -> parseToggle(tokens, pos)
               [] type = <<"bng">> -> parseBang(tokens, pos)
               [] type = <<"cnv">> -> parseCanvas(tokens, pos, ub)
               [] type = <<"pd">>  -> parseSubpatch(tokens, pos)
               [] OTHER -> Nullptr

\* a parseLine that tells the kind of a line by its tokens, not by the
\* characters the line starts with
parseLineByTokens(line, ub) ==
    LET tokens == splitString(line, Sp)
    IN  IF Len(tokens) < 3 \/ Tok(tokens, 0) # <<"#", "X">> THEN Nullptr
        ELSE IF Tok(tokens, 1) = <<"obj">> THEN parseObj(tokens, ub)
        ELSE IF Tok(tokens, 1) = <<"floatatom">>
             THEN IF Len(tokens) < 4 THEN Nullptr
                  ELSE parseNumberBox(tokens,
                           Vec(ofToFloat(Tok(tokens, 2)), ofToFloat(Tok(tokens, 3))))
        ELSE IF Tok(tokens, 1) = <<"restore">>
             THEN IF Len(tokens) < 5 THEN Nullptr
                  ELSE parseSubpatch(tokens,
                           Vec(ofToFloat(Tok(tokens, 2)), ofToFloat(Tok(tokens, 3))))
        ELSE Nullptr

\* PdPatchParser::parseLine
parseLine(line, ub) ==
    LET tokens == splitString(line, Sp)
    IN  IF Len(tokens) < 3 THEN Nullptr
        ELSE IF StartsWith(line, PrefixObj) THEN parseObj(tokens, ub)
        ELSE IF StartsWith(line, PrefixFloatatom)
             THEN IF Len(tokens) < 4 THEN Nullptr
                  ELSE parseNumberBox(tokens,
                           Vec(ofToFloat(Tok(tokens, 2)), ofToFloat(Tok(tokens, 3))))
        ELSE IF StartsWith(line, PrefixRestore)
             THEN IF Len(tokens) < 5 THEN Nullptr
                  ELSE parseSubpatch(tokens,
                           Vec(ofToFloat(Tok(tokens, 2)), ofToFloat(Tok(tokens, 3))))
        ELSE Nullptr

-----------------------------------------------------------------------------
(* The patches the model parses *)

W(a) == <<a>>

HX == <<"#", "X">>

Semi(a) == <<a, ";">>

ColorToken == <<"#", "f", "f", "0", "4", "0", "0">>

\* #X obj x y tgl size init send receive label x_off y_off font font_size
\*        bg_color fg_color label_color init_value default_value;
ToggleTokens(x, y, t7, t8, t9) ==
    <<HX, W("obj"), W(x), W(y), W("tgl"), W("40"), W("0"), t7, t8, t9,
      W("0"), W("-10"), W("0"), W("12"), ColorToken, ColorToken, ColorToken,
      W("0"), Semi("1")>>

\* #X obj x y bng size hold send receive label ...;
BangTokens(x, y, t7, t8) ==
    <<HX, W("obj"), W(x), W(y), W("bng"), W("20"), W("50"), t7, t8,
      W("empty"), W("0"), W("-10"), W("0"), W("12"), ColorToken, ColorToken,
      ColorToken, Semi("0")>>

\* #X obj x y hsl width height min max lin_log send receive label x_off y_off
\*        font font_size bg_color fg_color label_color val;
SliderTokens(tag, x, y, min, max, t10, t11, val) ==
    <<HX, W("obj"), W(x), W(y), W(tag), W("128"), W("15"), min, max,
      W("0"), t10, t11, W("empty"), W("-2"), W("-8"), W("0"), W("10"),
      ColorToken, ColorToken, ColorToken, val>>

\* #X floatatom x y width min max label_pos label font_size send receive val;
FloatatomTokens(x, y, min, max, t9, t10, val) ==
    <<HX, W("floatatom"), W(x), W(y), W("5"), min, max, W("0"), W("-"),
      t9, t10, val>>

\* #X obj x y cnv size width height send receive label x_off y_off font
\*        font_size bg_color fg_color label_color;
CanvasTokens(x, y, label, bg, fg) ==
    <<HX, W("obj"), W(x), W(y), W("cnv"), W("19"), W("126"), W("76"),
      W("empty"), W("empty"), label, W("20"), W("12"), W("0"), W("12"),
      bg, fg, Semi("0")>>

\* #X restore x y pd name   and   #X obj x y pd name
SubpatchTokens(keyword, x, y, name) ==
    <<HX, W(keyword), W(x), W(y), W("pd"), name>>

\* A line is described by its kind, the number n of tokens it is cut to, its
\* position and the tokens of its variable fields
Desc(kind, n, x, y, args) == [kind |-> kind, n |-> n, x |-> x, y |-> y, args |-> args]

Tokens(d) ==
    CASE d.kind = "tgl" -> ToggleTokens(d.x, d.y, d.args[1], d.args[2], d.args[3])
      [] d.kind = "bng" -> BangTokens(d.x, d.y, d.args[1], d.args[2])
      [] d.kind \in {"hsl", "vsl"} ->
            SliderTokens(d.kind, d.x, d.y, d.args[1], d.args[2], d.args[3],
                         d.args[4], d.args[5])
      [] d.kind = "floatatom" ->
            FloatatomTokens(d.x, d.y, d.args[1], d.args[2], d.args[3],
                            d.args[4], d.args[5])
      [] d.kind = "cnv" -> CanvasTokens(d.x, d.y, d.args[1], d.args[2], d.args[3])
      [] d.kind = "restore" -> SubpatchTokens("restore", d.x, d.y, d.args[1])
      [] d.kind = "objpd" -> SubpatchTokens("obj", d.x, d.y, d.args[1])
      [] OTHER -> d.args

\* the text of the line: its first n tokens, one blank between two.  The
\* kinds "indented" and "spaced" are the tokens of a toggle line after a
\* leading blank, and with two blanks after "#X"
Line(d) ==
    CASE d.kind = "indented" -> <<Sp>> \o Join(Take(d.args, d.n))
      [] d.kind = "spaced" ->
            HX \o <<Sp, Sp>> \o Join(Tail(Take(d.args, d.n)))
      [] OTHER -> Join(Take(Tokens(d), d.n))

\* The line of the class documentation of PdPatchParser
DocToggle ==
    Desc("tgl", 19, "100", "50",
         <<W("toggle_send"), W("toggle_receive"), W("empty")>>)

FirstLine == Desc("bng", 18, "10", "20", <<W("bang_send"), W("bang_receive")>>)

ConnectLine ==
    Desc("other", 6, "", "", <<HX, W("connect"), W("0"), W("0"), W("1"), Semi("0")>>)

\* lines no branch of parseLine recognises
OtherLines ==
    { Desc("other", 0, "", "", <<>>),
      ConnectLine,
      Desc("other", 5, "", "", <<HX, W("text"), W("10"), W("10"), W("hello")>>),
      Desc("other", 6, "", "",
           <<<<"#", "N">>, W("canvas"), W("0"), W("0"), W("100"), Semi("100")>>),
      Desc("other", 10, "", "",
           <<W("obj"), W("10"), W("10"), W("tgl"), W("40"), W("0"),
             W("a"), W("b"), W("c"), W("d")>>),
      Desc("indented", 19, "", "", Tokens(DocToggle)),
      Desc("spaced", 19, "", "", Tokens(DocToggle)) }

Sentinels == {W("empty"), W("-")}

ToggleLines ==
    { Desc("tgl", n, "100", "50", <<t7, t8, t9>>) :
        t7 \in Sentinels \cup {W("toggle_send")},
        t8 \in Sentinels \cup {W("toggle_receive")},
        t9 \in Sentinels \cup {W("label")},
        n \in {9, 10, 19} }

BangLines ==
    { Desc("bng", n, "10", "20", <<t7, t8>>) :
        t7 \in Sentinels \cup {W("bang_send")},
        t8 \in Sentinels \cup {W("bang_receive")},
        n \in {8, 9, 18} }

SliderLines ==
    { Desc(tag, n, "10", "60", <<W("0"), W("127"), t10, t11, Semi("5")>>) :
        tag \in {"hsl", "vsl"},
        t10 \in Sentinels \cup {W("s")},
        t11 \in Sentinels \cup {W("r")},
        n \in {11, 12, 21} }
    \cup
    { Desc(tag, n, "10", "60", <<W(min), W(max), W("s"), W("r"), Semi(val)>>) :
        tag \in {"hsl", "vsl"},
        min \in {"0", "0.001", "-1", "5"},
        max \in {"1", "127", "0"},
        val \in {"0", "0.5", "10", "-10"},
        n \in {12, 20, 21} }

FloatatomLines ==
    { Desc("floatatom", n, "30", "40", <<W(min), W(max), W("-"), t10, Semi(val)>>) :
        min \in {"0", "0.001", "-1"},
        max \in {"0", "1", "127"},
        t10 \in {W("-"), W("r")},
        val \in {"0", "2.5", "-10"},
        n \in {6, 7, 11, 12} }

\* floatatom lines that declare a send name, a receive name, both or none,
\* cut after each field; the line that stops at its receive field ends with
\* the ';' of the patch format ("#X floatatom 30 40 5 0 0 0 - - -;")
ChannelFloatatomLines ==
    { Desc("floatatom", n, p[1], p[2], <<W("0"), W("0"), t9, t10, Semi("0")>>) :
        p \in {<<"30", "40">>, <<"2.5", "-1">>},
        t9 \in {W("-"), W("s"), W("empty")},
        t10 \in {W("-"), W("r"), W("empty")},
        n \in {9, 10, 11, 12} }
    \cup
    { Desc("floatatom", 11, "30", "40", <<W("0"), W("0"), t9, t10, Semi("0")>>) :
        t9 \in {W("-"), W("s")},
        t10 \in {Semi("-"), Semi("r")} }

CanvasLines ==
    { Desc("cnv", n, "10", "20", <<label, bg, fg>>) :
        label \in {W("empty"), W("title")},
        bg \in {ColorToken, W("0"), <<"#", "f", "f">>},
        fg \in {ColorToken, <<"#", "z", "z", "0", "0", "0", "0">>},
        n \in {6, 7, 8, 15, 16, 18} }

SubpatchLines ==
    { Desc(kind, n, x, y, <<W(name)>>) :
        kind \in {"restore", "objpd"},
        x \in {"50", "0"},
        y \in {"50", "10"},
        name \in {"sub", "nofile", "main", "num"},
        n \in {5, 6} }

\* lines with text where a number is expected
TextForNumberLines ==
    { Desc("tgl", 19, "abc", "50",
           <<W("toggle_send"), W("toggle_receive"), W("empty")>>),
      Desc("bng", 18, "10", "xyz", <<W("bang_send"), W("bang_receive")>>),
      Desc("hsl", 21, "10", "60", <<W("lo"), W("127"), W("s"), W("r"), Semi("5")>>),
      Desc("vsl", 21, "10", "60", <<W("0"), W("127"), W("s"), W("r"), Semi("v")>>),
      Desc("floatatom", 12, "30", "40", <<W("lo"), W("hi"), W("-"), W("r"), Semi("0")>>) }

\* the toggle line of the documentation with a second token that is longer
\* than the keyword it starts with: "#X object 100 50 tgl ..."
LongKeywordLines ==
    { Desc("other", 19, "", "",
           <<HX, <<"obj", "ect">>>> \o SubSeq(Tokens(DocToggle), 3, 19)) }

LinesUnderTest ==
    OtherLines \cup ToggleLines \cup BangLines \cup SliderLines
    \cup FloatatomLines \cup ChannelFloatatomLines \cup CanvasLines
    \cup SubpatchLines \cup TextForNumberLines \cup LongKeywordLines

\* main.pd: the line under test between two widgets
MainDoc(x) == <<Line(FirstLine), Line(x), Line(DocToggle)>>

\* one.pd: the line under test alone
OneDoc(x) == <<Line(x)>>

\* sub.pd: two widgets around a line that is none, then a nested reference
SubDoc(a, b) ==
    << Line(Desc("tgl", 19, a, b, <<W("empty"), W("child_send"), W("child_receive")>>)),
       Line(ConnectLine),
       Line(Desc("hsl", 21, b, a, <<W("0"), W("127"), W("cs"), W("cr"), Semi("5")>>)),
       Line(Desc("restore", 6, "20", "30", <<W("inner")>>)) >>

InnerDoc ==
    << Line(Desc("bng", 18, "1", "2", <<W("inner_send"), W("empty")>>)) >>

\* a number box with no channel, as Pd writes it
PlainFloatatom ==
    Desc("floatatom", 12, "30", "40", <<W("0"), W("0"), W("-"), W("-"), Semi("0")>>)

\* num.pd: a number box and a reference to leaf.pd
NumDoc == << Line(PlainFloatatom), Line(Desc("restore", 6, "20", "30", <<W("leaf")>>)) >>

\* leaf.pd: a number box at the same place of its own canvas
LeafDoc == << Line(PlainFloatatom) >>

\* the files of bin/data for a disk: main.pd around the line `line`, one.pd
\* with that line alone, sub.pd with its widgets at (a,b) and (b,a),
\* inner.pd, num.pd, leaf.pd; no other file exists
FileNames == {"main.pd", "one.pd", "sub.pd", "inner.pd", "num.pd", "leaf.pd"}

Files(d, filename) ==
    CASE filename = "main.pd" -> MainDoc(d.line)
      [] filename = "one.pd" -> OneDoc(d.line)
      [] filename = "sub.pd" -> SubDoc(d.a, d.b)
      [] filename = "inner.pd" -> InnerDoc
      [] filename = "num.pd" -> NumDoc
      [] filename = "leaf.pd" -> LeafDoc
      [] OTHER -> <<>>

Disks ==
    { [line |-> x, a |-> "10", b |-> "10"] : x \in LinesUnderTest }
    \cup { [line |-> x, a |-> a, b |-> b] :
             x \in SubpatchLines, a \in {"10", "40"}, b \in {"10", "5"} }

TopFiles == {"main.pd", "one.pd", "absent.pd"}

-----------------------------------------------------------------------------
(* The parser at work *)

\* ofBufferFromFile: the lines of the file, none when it cannot be opened
ofBufferFromFile(filename) ==
    IF filename \in FileNames THEN Files(disk, filename) ELSE <<>>

\* an activation whose `objects` is not a fresh local but what the last
\* call left behind
ActivationStale(filename, sub) ==
    [file |-> filename, idx |-> 1,
     objects |-> IF results = <<>> THEN <<>> ELSE Last(results).objects,
     sub |-> sub]

\* the locals of one parseFile activation: `objects`, the position of the
\* line loop, and the PdSubpatch whose constructor made the call, if any
Activation(filename, sub) ==
    [file |-> filename, idx |-> 1, objects |-> <<>>, sub |-> sub]

Top == Last(stack)

Idle == stack = <<>> /\ fault = "none"

\* the host calls parseFile(filename); an empty buffer returns at once
HostParseFile(filename) ==
    /\ Idle
    /\ Len(results) < MaxParses
    /\ IF ofBufferFromFile(filename) = <<>>
       THEN /\ results' = Append(results, [file |-> filename, objects |-> <<>>])
            /\ stack' = stack
       ELSE /\ stack' = <<Activation(filename, NoWidget)>>
            /\ results' = results
    /\ UNCHANGED <<disk, fault, hexIn, hexOut, guiObjects, mouseEvents, splitIn, splitOut, clock, lastEvent>>

\* the top activation after parseLine gave r for its current line
AfterLine(r) ==
    LET n == Len(stack)
    IN  CASE r.tag = "none" -> [stack EXCEPT ![n].idx = @ + 1]
          [] r.tag = "obj" ->
                [stack EXCEPT ![n].idx = @ + 1,
                              ![n].objects = Append(@, r.obj)]
          [] r.tag = "sub" ->
                IF ofBufferFromFile(r.obj.subpatchPath) = <<>>
                THEN [stack EXCEPT ![n].idx = @ + 1,
                                   ![n].objects = Append(@, r.obj)]
                ELSE Append(stack, Activation(r.obj.subpatchPath, r.obj))
          [] OTHER -> <<>>

\* one turn of the line loop of parseFile: parseLine on the current line.
\* A subpatch line runs the PdSubpatch constructor, whose loadSubpatch calls
\* parseFile on the child file: a new activation, unless the stack is spent.
ParseLineStep(ub) ==
    /\ stack # <<>>
    /\ fault = "none"
    /\ LET buffer == ofBufferFromFile(Top.file)
       IN  /\ Top.idx <= Len(buffer)
           /\ LET r == parseLine(buffer[Top.idx], ub)
                  next == AfterLine(r)
              IN  IF r.tag = "crash"
                  THEN fault' = "crash" /\ stack' = <<>>
                  ELSE IF Len(next) > MaxDepth
                  THEN fault' = "overflow" /\ stack' = <<>>
                  ELSE fault' = fault /\ stack' = next
    /\ UNCHANGED <<disk, results, hexIn, hexOut, guiObjects, mouseEvents, splitIn, splitOut, clock, lastEvent>>

\* parseFile returns `objects`: to the host, or to loadSubpatch, which adds
\* every object as a child before the constructor and parseLine return
ReturnStep ==
    /\ stack # <<>>
    /\ fault = "none"
    /\ Top.idx > Len(ofBufferFromFile(Top.file))
    /\ IF Len(stack) = 1
       THEN /\ results' = Append(results, [file |-> Top.file, objects |-> Top.objects])
            /\ stack' = <<>>
       ELSE /\ results' = results
            /\ stack' = [Front(stack) EXCEPT
                            ![Len(stack) - 1].idx = @ + 1,
                            ![Len(stack) - 1].objects =
                                Append(@, addChildren(Top.sub, Top.objects))]
    /\ UNCHANGED <<disk, fault, hexIn, hexOut, guiObjects, mouseEvents, splitIn, splitOut, clock, lastEvent>>

UBOutcomes == {<<>>, <<0>>, <<76000>>}

Init ==
    /\ disk \in Disks
    /\ stack = <<>>
    /\ results = <<>>
    /\ fault = "none"
    /\ hexIn = <<>>
    /\ hexOut = <<>>
    /\ guiObjects = <<>>
    /\ mouseEvents = 0
    /\ splitIn = <<>>
    /\ splitOut = <<>>
    /\ clock = 0
    /\ lastEvent = <<"setup">>

Next ==
    \/ \E filename \in TopFiles : HostParseFile(filename)
    \/ \E ub \in UBOutcomes : ParseLineStep(ub)
    \/ ReturnStep

Spec == Init /\ [][Next]_vars

-----------------------------------------------------------------------------
(* parseHexColor on its own *)

MaxHexLen == 8

HexChars == {"0", "4", "f", "z"}

\* '#' and six characters, and strings of '#' and 'f' of every length
HexInputs ==
    { <<"#">> \o t : t \in [1..6 -> HexChars] }
    \cup UNION { [1..n -> {"#", "f"}] : n \in 0..MaxHexLen }

InitHex ==
    /\ hexIn \in HexInputs
    /\ hexOut = <<>>
    /\ disk = [line |-> Desc("other", 0, "", "", <<>>), a |-> "10", b |-> "10"]
    /\ stack = <<>>
    /\ results = <<>>
    /\ fault = "none"
    /\ guiObjects = <<>>
    /\ mouseEvents = 0
    /\ splitIn = <<>>
    /\ splitOut = <<>>
    /\ clock = 0
    /\ lastEvent = <<"setup">>

CallParseHexColor ==
    /\ hexOut = <<>>
    /\ hexOut' = parseHexColor(hexIn)
    /\ UNCHANGED <<disk, stack, results, fault, hexIn, guiObjects, mouseEvents, splitIn, splitOut, clock, lastEvent>>

NextHex == CallParseHexColor

SpecHex == InitHex /\ [][NextHex]_vars

-----------------------------------------------------------------------------
(* splitString on its own *)

\* characters of the line handed to splitString
MaxLineLen == 4

\* a blank, a tab, a carriage return, a letter and the ';' that ends a line
SplitChars == {Sp, "\t", "\r", "a", ";"}

SplitInputs == UNION { [1..n -> SplitChars] : n \in 0..MaxLineLen }

InitSplit ==
    /\ splitIn \in SplitInputs
    /\ splitOut = <<>>
    /\ disk = [line |-> Desc("other", 0, "", "", <<>>), a |-> "10", b |-> "10"]
    /\ stack = <<>>
    /\ results = <<>>
    /\ fault = "none"
    /\ hexIn = <<>>
    /\ hexOut = <<>>
    /\ guiObjects = <<>>
    /\ mouseEvents = 0
    /\ clock = 0
    /\ lastEvent = <<"setup">>

\* parseLine's call splitString(line, ' '); splitOut is <<the tokens>>
CallSplitString ==
    /\ splitOut = <<>>
    /\ splitOut' = <<splitString(splitIn, Sp)>>
    /\ UNCHANGED <<disk, stack, results, fault, hexIn, hexOut, guiObjects,
                   mouseEvents, splitIn, clock, lastEvent>>

NextSplit == CallSplitString

SpecSplit == InitSplit /\ [][NextSplit]_vars

-----------------------------------------------------------------------------
(* ofApp: the host of the widgets *)

\* mouse events the host delivers in a run
MaxMouseEvents == 2

\* the documents of the host: main.pd with a subpatch line under test
GuiDisks == { d \in Disks : d.line \in SubpatchLines /\ d.b = "10" }

InitGui ==
    /\ disk \in GuiDisks
    /\ stack = <<>>
    /\ results = <<>>
    /\ fault = "none"
    /\ hexIn = <<>>
    /\ hexOut = <<>>
    /\ guiObjects = <<>>
    /\ mouseEvents = 0
    /\ splitIn = <<>>
    /\ splitOut = <<>>
    /\ clock = 0
    /\ lastEvent = <<"setup">>

RECURSIVE bindCallbacks(_)
\* the loop of ofApp::setupCallbacks over guiObjects
bindCallbacks(objs) ==
    IF objs = <<>> THEN <<>>
    ELSE <<[objs[1] EXCEPT !.onSendToPd = "host", !.onSendToPdString = "host"]>>
         \o bindCallbacks(Tail(objs))

\* ofApp::setup after its parseFile call: guiObjects is what the call on the
\* patch returned, and setupCallbacks binds the callbacks of the host
SetupCallbacks ==
    /\ Idle
    /\ guiObjects = <<>>
    /\ results # <<>>
    /\ Last(results).file = "main.pd"
    /\ Last(results).objects # <<>>
    /\ guiObjects' = bindCallbacks(Last(results).objects)
    /\ UNCHANGED <<disk, stack, results, fault, hexIn, hexOut, mouseEvents, splitIn, splitOut, clock, lastEvent>>

\* where the pointer is pressed: just inside the corner of a widget, the
\* middle of a widget, or off every widget
ClickPoints ==
    LET all == Flatten(guiObjects)
    IN  { Vec(all[i].position[1] + 1000, all[i].position[2] + 1000) : i \in 1..Len(all) }
        \cup { Vec(all[i].position[1] + all[i].size[1] \div 2,
                   all[i].position[2] + all[i].size[2] \div 2) : i \in 1..Len(all) }
        \cup { Vec(-1000, -1000) }

\* the last moment of the model
MaxClock == 16777826

\* a trigger now can still time out before the last moment of the model
TimeLeft == clock + TRIGGER_DURATION + 2 <= MaxClock

\* ofApp::mousePressed(x, y, button)
MousePressed(point) ==
    /\ Idle
    /\ guiObjects # <<>>
    /\ mouseEvents < MaxMouseEvents
    /\ TimeLeft
    /\ guiObjects' = pressFirst(guiObjects, point)
    /\ mouseEvents' = mouseEvents + 1
    /\ lastEvent' = <<"mousePressed", point>>
    /\ UNCHANGED <<disk, stack, results, fault, hexIn, hexOut, splitIn, splitOut,
                   clock>>

NextGui ==
    \/ \E filename \in TopFiles : HostParseFile(filename)
    \/ \E ub \in UBOutcomes : ParseLineStep(ub)
    \/ ReturnStep
    \/ SetupCallbacks
    \/ \E point \in ClickPoints : MousePressed(point)

SpecGui == InitGui /\ [][NextGui]_vars

\* ofApp::mouseDragged(x, y, button)
MouseDragged(point) ==
    /\ Idle
    /\ guiObjects # <<>>
    /\ mouseEvents < MaxMouseEvents
    /\ guiObjects' = dragAll(guiObjects, point)
    /\ mouseEvents' = mouseEvents + 1
    /\ lastEvent' = <<"mouseDragged", point>>
    /\ UNCHANGED <<disk, stack, results, fault, hexIn, hexOut, splitIn, splitOut,
                   clock>>

\* ofApp::mouseReleased(x, y, button)
MouseReleased(point) ==
    /\ Idle
    /\ guiObjects # <<>>
    /\ mouseEvents < MaxMouseEvents
    /\ guiObjects' = releaseAll(guiObjects, point)
    /\ mouseEvents' = mouseEvents + 1
    /\ lastEvent' = <<"mouseReleased", point>>
    /\ UNCHANGED <<disk, stack, results, fault, hexIn, hexOut, splitIn, splitOut,
                   clock>>

\* the host calls setEnabled(e) on the widget guiObjects[i]; through the
\* PdGuiObject pointer of guiObjects the call is PdGuiObject::setEnabled
SetEnabled(i, e) ==
    /\ Idle
    /\ i \in 1..Len(guiObjects)
    /\ mouseEvents < MaxMouseEvents
    /\ guiObjects' = [guiObjects EXCEPT ![i].enabled = e]
    /\ mouseEvents' = mouseEvents + 1
    /\ lastEvent' = <<"setEnabled", i>>
    /\ UNCHANGED <<disk, stack, results, fault, hexIn, hexOut, splitIn, splitOut,
                   clock>>

\* the host calls setVisible(v) on the widget guiObjects[i]
SetVisible(i, v) ==
    /\ Idle
    /\ i \in 1..Len(guiObjects)
    /\ mouseEvents < MaxMouseEvents
    /\ guiObjects' = [guiObjects EXCEPT ![i].visible = v]
    /\ mouseEvents' = mouseEvents + 1
    /\ lastEvent' = <<"setVisible", i>>
    /\ UNCHANGED <<disk, stack, results, fault, hexIn, hexOut, splitIn, splitOut,
                   clock>>

-----------------------------------------------------------------------------
(* ofApp with a patch of one bang, and the time that passes *)

\* the moments of the model: the first ms of a run, and the first ms after
\* 2^24 ms (4 h 39 min), from where a float no longer holds every ms
Times ==
    { e + o : e \in {0, 16777216},
              o \in {0, 1, 2, 3, 299, 300, 301, 302, 303, 610} } \cap 0..MaxClock

\* ofApp::setup is over: guiObjects is the bang parseFile made of one.pd
InitBang ==
    /\ disk = [line |-> FirstLine, a |-> "10", b |-> "10"]
    /\ guiObjects = bindCallbacks(<<parseLine(OneDoc(disk.line)[1], <<0>>).obj>>)
    /\ stack = <<>>
    /\ results = <<>>
    /\ fault = "none"
    /\ hexIn = <<>>
    /\ hexOut = <<>>
    /\ mouseEvents = 0
    /\ splitIn = <<>>
    /\ splitOut = <<>>
    /\ clock = 0
    /\ lastEvent = <<"setup">>

\* time passes: the clock moves on to the moment t
Tick(t) ==
    /\ Idle
    /\ guiObjects # <<>>
    /\ t > clock
    /\ clock' = t
    /\ UNCHANGED <<disk, stack, results, fault, hexIn, hexOut, guiObjects,
                   mouseEvents, splitIn, splitOut, lastEvent>>

\* ofApp::update()
Update ==
    /\ Idle
    /\ guiObjects # <<>>
    /\ guiObjects' = updateAll(guiObjects)
    /\ lastEvent' = <<"update", clock>>
    /\ UNCHANGED <<disk, stack, results, fault, hexIn, hexOut, mouseEvents,
                   splitIn, splitOut, clock>>

\* the host calls trigger() on the bang guiObjects[i]
Trigger(i) ==
    /\ Idle
    /\ i \in 1..Len(guiObjects)
    /\ guiObjects[i].type = "BANG"
    /\ mouseEvents < MaxMouseEvents
    /\ TimeLeft
    /\ guiObjects' = [guiObjects EXCEPT ![i] = trigger(@)]
    /\ mouseEvents' = mouseEvents + 1
    /\ lastEvent' = <<"trigger", i>>
    /\ UNCHANGED <<disk, stack, results, fault, hexIn, hexOut, splitIn, splitOut,
                   clock>>

NextBang ==
    \/ \E t \in Times : Tick(t)
    \/ Update
    \/ Trigger(1)
    \/ \E point \in ClickPoints : MousePressed(point)
    \/ \E point \in ClickPoints : MouseReleased(point)

\* the frames of the application go on, ofApp::update with them, and time
\* passes
SpecBang ==
    /\ InitBang
    /\ [][NextBang]_vars
    /\ WF_vars(Update)
    /\ WF_vars(\E t \in Times : Tick(t))

-----------------------------------------------------------------------------
(* ofApp with a patch of one toggle *)

\* the toggle line of the documentation, and a toggle near the origin
ToggleDisks ==
    { [line |-> DocToggle, a |-> "10", b |-> "10"],
      [line |-> Desc("tgl", 19, "10", "10",
                     <<W("empty"), W("child_send"), W("child_receive")>>),
       a |-> "10", b |-> "10"] }

\* ofApp::setup is over: guiObjects is the toggle parseFile made of one.pd,
\* with the callbacks of the host
InitToggle ==
    /\ disk \in ToggleDisks
    /\ guiObjects = bindCallbacks(<<parseLine(OneDoc(disk.line)[1], <<0>>).obj>>)
    /\ stack = <<>>
    /\ results = <<>>
    /\ fault = "none"
    /\ hexIn = <<>>
    /\ hexOut = <<>>
    /\ mouseEvents = 0
    /\ splitIn = <<>>
    /\ splitOut = <<>>
    /\ clock = 0
    /\ lastEvent = <<"setup">>

NextToggle ==
    \/ \E point \in ClickPoints : MousePressed(point)
    \/ \E point \in ClickPoints : MouseDragged(point)
    \/ \E point \in ClickPoints : MouseReleased(point)
    \/ \E e \in BOOLEAN : SetEnabled(1, e)
    \/ \E v \in BOOLEAN : SetVisible(1, v)

SpecToggle == InitToggle /\ [][NextToggle]_vars

-----------------------------------------------------------------------------
(* ofApp with a patch of three lines, and what a host can call on a widget *)

\* main.pd with, between its bang and its toggle: a reference to sub.pd, a
\* slider whose send field is "-", a number box
EventDisks ==
    { [line |-> Desc("restore", 6, "50", "50", <<W("sub")>>), a |-> "10", b |-> "10"],
      [line |-> Desc("hsl", 21, "10", "60",
                     <<W("0"), W("127"), W("-"), W("r"), Semi("5")>>),
       a |-> "10", b |-> "10"],
      [line |-> Desc("floatatom", 12, "30", "40",
                     <<W("0"), W("127"), W("-"), W("r"), Semi("0")>>),
       a |-> "10", b |-> "10"] }

InitEvents ==
    /\ disk \in EventDisks
    /\ stack = <<>>
    /\ results = <<>>
    /\ fault = "none"
    /\ hexIn = <<>>
    /\ hexOut = <<>>
    /\ guiObjects = <<>>
    /\ mouseEvents = 0
    /\ splitIn = <<>>
    /\ splitOut = <<>>
    /\ clock = 0
    /\ lastEvent = <<"setup">>

\* ofApp::keyPressed(key) for 'r' and 'a'
KeyPressed(key) ==
    /\ Idle
    /\ guiObjects # <<>>
    /\ mouseEvents < MaxMouseEvents
    /\ key \in {"r", "a"}
    /\ guiObjects' = setValueAll(guiObjects, IF key = "r" THEN 0 ELSE 1000)
    /\ mouseEvents' = mouseEvents + 1
    /\ lastEvent' = <<"keyPressed", key>>
    /\ UNCHANGED <<disk, stack, results, fault, hexIn, hexOut, splitIn, splitOut,
                   clock>>

\* the host calls setValue(value) on the widget guiObjects[i]
SetValue(i, value) ==
    /\ Idle
    /\ i \in 1..Len(guiObjects)
    /\ mouseEvents < MaxMouseEvents
    /\ guiObjects' = [guiObjects EXCEPT ![i] = setValue(@, value)]
    /\ mouseEvents' = mouseEvents + 1
    /\ lastEvent' = <<"setValue", i, value>>
    /\ UNCHANGED <<disk, stack, results, fault, hexIn, hexOut, splitIn, splitOut,
                   clock>>

\* the host calls setValueRange(min, max) on the widget guiObjects[i]
SetValueRange(i, min, max) ==
    /\ Idle
    /\ i \in 1..Len(guiObjects)
    /\ mouseEvents < MaxMouseEvents
    /\ min <= max
    /\ guiObjects' = [guiObjects EXCEPT ![i] = setValueRange(@, min, max)]
    /\ mouseEvents' = mouseEvents + 1
    /\ lastEvent' = <<"setValueRange", i, min, max>>
    /\ UNCHANGED <<disk, stack, results, fault, hexIn, hexOut, splitIn, splitOut,
                   clock>>

\* the host calls setOffset(x, y) on the subpatch guiObjects[i]
SetOffset(i, x, y) ==
    /\ Idle
    /\ i \in 1..Len(guiObjects)
    /\ guiObjects[i].type = "SUBPATCH"
    /\ mouseEvents < MaxMouseEvents
    /\ guiObjects' = [guiObjects EXCEPT ![i] = setOffset(@, x, y)]
    /\ mouseEvents' = mouseEvents + 1
    /\ lastEvent' = <<"setOffset", i, x, y>>
    /\ UNCHANGED <<disk, stack, results, fault, hexIn, hexOut, splitIn, splitOut,
                   clock>>

NextEvents ==
    \/ HostParseFile("main.pd")
    \/ \E ub \in UBOutcomes : ParseLineStep(ub)
    \/ ReturnStep
    \/ SetupCallbacks
    \/ \E point \in ClickPoints : MousePressed(point)
    \/ \E point \in ClickPoints : MouseDragged(point)
    \/ \E point \in ClickPoints : MouseReleased(point)
    \/ \E i \in 1..Len(guiObjects), e \in BOOLEAN : SetEnabled(i, e)
    \/ \E i \in 1..Len(guiObjects), v \in BOOLEAN : SetVisible(i, v)
    \/ \E key \in {"r", "a"} : KeyPressed(key)
    \/ \E i \in 1..Len(guiObjects), value \in {0, 1, 1000} : SetValue(i, value)
    \/ \E i \in 1..Len(guiObjects), min \in {0, 1}, max \in {1000, 127000} :
            SetValueRange(i, min, max)
    \/ \E i \in 1..Len(guiObjects), x \in {0, 50000}, y \in {50000} : SetOffset(i, x, y)

SpecEvents == InitEvents /\ [][NextEvents]_vars

-----------------------------------------------------------------------------
(* ofApp with a patch of one widget, for every content of its channel fields *)

\* ofApp::setup is over: guiObjects is the widget parseFile made of one.pd,
\* a complete slider, toggle, bang or floatatom line, with the callbacks of
\* the host
InitSend ==
    /\ disk \in { d \in Disks :
                    /\ d.line \in SliderLines \cup ToggleLines \cup BangLines
                                  \cup ChannelFloatatomLines
                    /\ d.line.n = Len(Tokens(d.line))
                    /\ parseLine(OneDoc(d.line)[1], <<0>>).obj # Nullptr }
    /\ guiObjects = bindCallbacks(<<parseLine(OneDoc(disk.line)[1], <<0>>).obj>>)
    /\ stack = <<>>
    /\ results = <<>>
    /\ fault = "none"
    /\ hexIn = <<>>
    /\ hexOut = <<>>
    /\ mouseEvents = 0
    /\ splitIn = <<>>
    /\ splitOut = <<>>
    /\ clock = 0
    /\ lastEvent = <<"setup">>

SpecSend == InitSend /\ [][NextToggle]_vars

-----------------------------------------------------------------------------
(* What the claims speak of *)

\* the collections the finished parseFile calls on `filename` returned
Returned(filename) ==
    { results[i].objects : i \in { j \in 1..Len(results) : results[j].file = filename } }

Types(objs) == [i \in 1..Len(objs) |-> objs[i].type]

\* the value a decimal literal of a patch denotes, in thousandths
Thousandths(literal) == LitValue[literal]

\* the line under test refers to the file sub.pd
RefersToSub ==
    /\ disk.line.kind \in {"restore", "objpd"}
    /\ disk.line.n = 6
    /\ disk.line.args = <<W("sub")>>

-----------------------------------------------------------------------------
\* C1: the toggle line of the class documentation, '#X obj 100 50 tgl 40 0
\* toggle_send toggle_receive empty ...', yields a Toggle at (100,50) of size
\* 40 x 40 that sends on "toggle_send" and receives on "toggle_receive", with
\* range [0,1] and value 0.  (It is the last line of main.pd.)
C1_DocToggleChannels ==
    \A objs \in Returned("main.pd") :
        /\ objs # <<>>
        /\ Last(objs).type = "TOGGLE"
        /\ Last(objs).position = Vec(100000, 50000)
        /\ Last(objs).size = Vec(40000, 40000)
        /\ Last(objs).sendSymbol = "toggle_send"
        /\ Last(objs).receiveSymbol = "toggle_receive"
        /\ Last(objs).minValue = 0
        /\ Last(objs).maxValue = 1000
        /\ Last(objs).currentValue = 0

\* C2: a widget declared at (a,b) in the file of a subpatch placed at (p,q)
\* is at (a+p, b+q) once parseFile of the parent has returned.  sub.pd
\* declares widgets at (a,b), (b,a) and (20,30).
C2_ChildrenTranslated ==
    RefersToSub =>
        \A objs \in Returned("main.pd") :
            LET p == Thousandths(disk.line.x)
                q == Thousandths(disk.line.y)
                a == Thousandths(disk.a)
                b == Thousandths(disk.b)
                sub == objs[2]
            IN  /\ Len(sub.children) = 3
                /\ sub.children[1].position = Vec(a + p, b + q)
                /\ sub.children[2].position = Vec(b + p, a + q)
                /\ sub.children[3].position = Vec(20000 + p, 30000 + q)

\* C2 witness: the widget at (10,10) of a subpatch placed at (50,50) has
\* been returned at (60,60)
C2_Witness ==
    /\ RefersToSub
    /\ disk.line.x = "50" /\ disk.line.y = "50"
    /\ disk.a = "10" /\ disk.b = "10"
    /\ \E objs \in Returned("main.pd") :
           objs[2].children[1].position = Vec(60000, 60000)

ChannelFields ==
    LET t == Take(Tokens(disk.line), disk.line.n)
        at == CASE disk.line.kind \in {"hsl", "vsl"} -> 10
                [] disk.line.kind = "tgl" -> 8
                [] disk.line.kind = "bng" -> 7
                [] OTHER -> 100
    IN  IF Len(t) > at + 1 THEN <<Tok(t, at), Tok(t, at + 1)>> ELSE <<>>

\* C4 as stated (for the ranges that are not empty): every slider and number
\* box the parser built has its value within its range
C4_ValueInRange ==
    \A k \in 1..Len(results) :
        LET all == Flatten(results[k].objects)
        IN  \A i \in 1..Len(all) :
                (/\ all[i].type \in {"HORIZONTAL_SLIDER", "VERTICAL_SLIDER", "NUMBER_BOX"}
                 /\ all[i].minValue <= all[i].maxValue)
                => /\ all[i].minValue <= all[i].currentValue
                   /\ all[i].currentValue <= all[i].maxValue

NoKnownPrefix(line) ==
    /\ ~ StartsWith(line, <<"#", "X", Sp, "obj">>)
    /\ ~ StartsWith(line, <<"#", "X", Sp, "floatatom">>)
    /\ ~ StartsWith(line, <<"#", "X", Sp, "restore">>)

\* the line parseFile is about to hand to parseLine is such a line
AtUnknownLine ==
    /\ stack # <<>>
    /\ Top.idx <= Len(ofBufferFromFile(Top.file))
    /\ NoKnownPrefix(ofBufferFromFile(Top.file)[Top.idx])

\* C6: a line with none of the three prefixes yields no widget and raises
\* nothing: the step over it leaves the collection as it is and goes on to
\* the next line; and the widgets of the other lines are returned as they
\* are without it
C6_UnknownLineSkipped ==
    /\ [][AtUnknownLine =>
            /\ fault' = "none"
            /\ Len(stack') = Len(stack)
            /\ Last(stack').objects = Top.objects
            /\ Last(stack').idx = Top.idx + 1
            /\ results' = results]_vars
    /\ [](NoKnownPrefix(Line(disk.line)) =>
            /\ fault = "none"
            /\ \A objs \in Returned("main.pd") :
                   /\ Types(objs) = <<"BANG", "TOGGLE">>
                   /\ objs[1].sendSymbol = "bang_send"
                   /\ objs[2].position = Vec(100000, 50000)
            /\ \A objs \in Returned("one.pd") : objs = <<>>)

\* C6 witness: parseFile of main.pd has returned after it went over a
\* connection record between two widgets
C6_Witness ==
    /\ disk.line = ConnectLine
    /\ \E objs \in Returned("main.pd") : Len(objs) = 2

\* '#' followed by exactly six hex digits
WellFormedHex(str) ==
    /\ Len(str) = 7
    /\ str[1] = "#"
    /\ \A i \in 2..7 : str[i] \in DOMAIN HexDigit

ByteOf(str, i) == 16 * HexDigit[str[i]] + HexDigit[str[i + 1]]

\* C7 as stated: parseHexColor gives the three bytes of '#' and six hex
\* digits, and the gray (128,128,128) for every other string
C7_HexOrGray ==
    hexOut # <<>> =>
        hexOut = IF WellFormedHex(hexIn)
                 THEN <<ByteOf(hexIn, 2), ByteOf(hexIn, 4), ByteOf(hexIn, 6)>>
                 ELSE <<128, 128, 128>>

\* the line under test is a floatatom line of at least 7 tokens whose min
\* and max fields are numbers
NumberBoxLine ==
    /\ disk.line.kind = "floatatom"
    /\ disk.line.n >= 7
    /\ disk.line.args[1][1] \in DOMAIN LitValue
    /\ disk.line.args[2][1] \in DOMAIN LitValue

\* C8: a floatatom line with min and max both 0 yields a number box of range
\* [-1000000, 1000000]; with any other pair the range is the declared pair
C8_NumberBoxRange ==
    NumberBoxLine =>
        \A objs \in Returned("one.pd") :
            /\ Types(objs) = <<"NUMBER_BOX">>
            /\ <<objs[1].minValue, objs[1].maxValue>> =
                  IF disk.line.args[1] = W("0") /\ disk.line.args[2] = W("0")
                  THEN <<-1000000000, 1000000000>>
                  ELSE <<Thousandths(disk.line.args[1][1]),
                         Thousandths(disk.line.args[2][1])>>

\* C8 witness: a 0/0 number box has been returned with the wide range
C8_Witness ==
    /\ NumberBoxLine
    /\ disk.line.args[1] = W("0") /\ disk.line.args[2] = W("0")
    /\ \E objs \in Returned("one.pd") : objs[1].maxValue = 1000000000

\* every read the parser makes of the line under test is of a token that exists
WellFormedDisk == ~ (disk.line.kind = "cnv" /\ disk.line.n = 7)

TokensNeeded(kind) ==
    CASE kind \in {"hsl", "vsl"} -> 12
      [] kind = "tgl" -> 10
      [] kind = "bng" -> 9
      [] kind = "floatatom" -> 7
      [] kind = "cnv" -> 8
      [] OTHER -> 6

\* the numeric fields of the line under test that are among its n tokens
NumericFields ==
    LET d == disk.line
    IN  {W(d.x), W(d.y)}
        \cup (IF d.kind \in {"hsl", "vsl", "floatatom"} THEN {d.args[1], d.args[2]} ELSE {})
        \cup (IF d.kind \in {"hsl", "vsl"} /\ d.n >= 21 THEN {d.args[5]} ELSE {})
        \cup (IF d.kind = "floatatom" /\ d.n >= 12 THEN {d.args[5]} ELSE {})

\* the line under test is malformed: of no known kind, too short for its
\* kind, or with text where its layout has a number
MalformedLine ==
    \/ NoKnownPrefix(Line(disk.line))
    \/ disk.line.n < TokensNeeded(disk.line.kind)
    \/ \E t \in NumericFields : t[1] \notin DOMAIN LitValue

\* C10 as stated: parseFile never raises, returns an empty collection for a
\* file that cannot be opened, and returns an empty collection for a file
\* whose every line is malformed (one.pd holds the line under test alone)
C10_NeverRaises ==
    /\ fault = "none"
    /\ \A objs \in Returned("absent.pd") : objs = <<>>
    /\ MalformedLine => \A objs \in Returned("one.pd") : objs = <<>>

\* C11 as stated: a document returns the in-order concatenation of what its
\* lines return on their own, so the line under test, put between the two
\* widgets of main.pd, leaves both in place around what it yields alone in
\* one.pd; and no line aborts the parse
C11_LinesIndependent ==
    /\ fault = "none"
    /\ \A m \in Returned("main.pd") :
           /\ Len(m) >= 2
           /\ m[1].type = "BANG" /\ m[1].sendSymbol = "bang_send"
           /\ Last(m).type = "TOGGLE" /\ Last(m).position = Vec(100000, 50000)
           /\ \A o \in Returned("one.pd") : SubSeq(m, 2, Len(m) - 1) = o

\* C12 as stated: a recognised line with text in a numeric field (x, y, min,
\* max or initial value) yields no widget, and the lines after it are parsed
C12_TextFieldSkipped ==
    disk.line \in TextForNumberLines =>
        /\ \A o \in Returned("one.pd") : o = <<>>
        /\ \A m \in Returned("main.pd") : Types(m) = <<"BANG", "TOGGLE">>

\* C13 as stated: recursion through subpatch references is guarded, no file
\* is being parsed inside a parse of itself and the stack is never spent
C13_RecursionGuarded ==
    /\ fault # "overflow"
    /\ \A i, j \in 1..Len(stack) : i < j => stack[i].file # stack[j].file

\* the line under test refers to a file that does not exist
RefersToNoFile ==
    /\ disk.line.kind \in {"restore", "objpd"}
    /\ disk.line.n = 6
    /\ disk.line.args = <<W("nofile")>>

\* C14 as stated: a subpatch line whose file cannot be loaded contributes no
\* widget to what the parent parse returns, and the other lines of the parent
\* are returned
C14_MissingChildNothing ==
    RefersToNoFile =>
        /\ \A m \in Returned("main.pd") : Types(m) = <<"BANG", "TOGGLE">>
        /\ \A o \in Returned("one.pd") : o = <<>>

\* every widget that is a child of a subpatch, at any depth
ChildWidgets(objs) ==
    LET all == Flatten(objs)
    IN  UNION { { Flatten(all[i].children)[k] : k \in 1..Len(Flatten(all[i].children)) } :
                i \in 1..Len(all) }

\* C15 as stated: once the host has bound its callbacks, every call a child
\* of a subpatch makes on a value change is a call of the callback of the
\* host, with the send symbol of that child
C15_ChildCallsHost ==
    \A w \in ChildWidgets(guiObjects) :
        \A k \in 1..Len(w.calls) :
            /\ w.calls[k][1] = "host"
            /\ w.calls[k][2] = w.sendSymbol

\* every widget a parse holds or has returned
ParsedWidgets ==
    UNION { { Flatten(stack[i].objects)[k] : k \in 1..Len(Flatten(stack[i].objects)) } :
            i \in 1..Len(stack) }
    \cup UNION { { Flatten(results[i].objects)[k] : k \in 1..Len(Flatten(results[i].objects)) } :
                 i \in 1..Len(results) }

\* C16: the parser calls no callback: no widget that parseFile holds or has
\* returned, built with its initial value or loaded from a subpatch, has made
\* a call of onSendToPd or onSendToPdString
C16_ParserCallsNoCallback ==
    \A w \in ParsedWidgets : w.calls = <<>>

\* C16 witness: parseFile has returned a slider whose constructor moved its
\* value off 0 to the initial value of the line
C16_Witness ==
    /\ \E w \in ParsedWidgets :
           /\ w.type = "VERTICAL_SLIDER"
           /\ w.sendSymbol = "s"
           /\ w.currentValue = 10000
    /\ disk.line.kind = "vsl"
    /\ Returned("main.pd") # {}

\* the line under test is a floatatom line of at least 7 tokens at a
\* position given in numbers
PlacedFloatatom ==
    /\ disk.line.kind = "floatatom"
    /\ disk.line.n >= 7
    /\ disk.line.x \in DOMAIN LitValue
    /\ disk.line.y \in DOMAIN LitValue

\* the field at index i of the line under test, without the ';' that ends
\* the line; "-" when the line has no such field
FieldOrDash(i) ==
    LET t == Take(Tokens(disk.line), disk.line.n)
    IN  IF Len(t) <= i THEN "-"
        ELSE IF Last(Tok(t, i)) = ";" THEN Str(Front(Tok(t, i)))
        ELSE Str(Tok(t, i))

\* C17 as stated: a floatatom line of at least 7 tokens yields a number box;
\* with both channel fields (index 9 and 10) missing or "-" its two channels
\* are 'floatatom-<x>-<y>' of its declared position, and with a declared
\* channel the declared names are its channels and nothing is synthesised
C17_ChannelsOrSynthesised ==
    PlacedFloatatom =>
        \A o \in Returned("one.pd") :
            /\ Types(o) = <<"NUMBER_BOX">>
            /\ LET send == FieldOrDash(9)
                   receive == FieldOrDash(10)
                   generic == "floatatom-" \o disk.line.x \o "-" \o disk.line.y
               IN  IF send = "-" /\ receive = "-"
                   THEN /\ o[1].sendSymbol = generic
                        /\ o[1].receiveSymbol = generic
                   ELSE /\ o[1].sendSymbol = (IF send = "-" THEN "" ELSE send)
                        /\ o[1].receiveSymbol = (IF receive = "-" THEN "" ELSE receive)

\* the channel names parseNumberBox can synthesise
SynthNames ==
    { "floatatom-" \o x \o "-" \o y : x \in DOMAIN LitValue, y \in DOMAIN LitValue }

\* C18 as stated: in what one parseFile call returned, subpatches included,
\* no two number boxes carry the same synthesised channel name
C18_SynthNamesUnique ==
    \A k \in 1..Len(results) :
        LET all == Flatten(results[k].objects)
        IN  \A i, j \in 1..Len(all) :
                (/\ i < j
                 /\ all[i].type = "NUMBER_BOX" /\ all[j].type = "NUMBER_BOX"
                 /\ all[i].sendSymbol \in SynthNames)
                => all[i].sendSymbol # all[j].sendSymbol

C20_ByFirstTwoTokens ==
    /\ disk.line.kind \in {"indented", "spaced"} =>
           \A o \in Returned("one.pd") : Types(o) = <<"TOGGLE">>
    /\ disk.line \in LongKeywordLines =>
           \A o \in Returned("one.pd") : o = <<>>

Whitespace == {Sp, "\t", "\r"}

RECURSIVE RunsFrom(_, _)
\* the maximal runs of characters that are no whitespace, cur being the run
\* in progress
RunsFrom(str, cur) ==
    IF str = <<>>
    THEN IF cur = <<>> THEN <<>> ELSE <<cur>>
    ELSE IF str[1] \in Whitespace
         THEN (IF cur = <<>> THEN <<>> ELSE <<cur>>) \o RunsFrom(Tail(str), <<>>)
         ELSE RunsFrom(Tail(str), Append(cur, str[1]))

\* C21 as stated: the tokens of a line are, in order, its maximal runs of
\* characters other than space, tab and carriage return: no token is empty,
\* none holds a whitespace character, a blank line has no token, and a
\* trailing ';' stays in the last token
C21_SplitsOnWhitespace ==
    splitOut # <<>> =>
        LET tokens == splitOut[1]
        IN  /\ tokens = RunsFrom(splitIn, <<>>)
            /\ \A i \in 1..Len(tokens) :
                   /\ tokens[i] # <<>>
                   /\ \A j \in 1..Len(tokens[i]) : tokens[i][j] \notin Whitespace

\* C22 as stated: a widget reached through k >= 1 nested subpatch references
\* is at its declared position plus the positions of all k references.  The
\* bang of inner.pd is declared at (1,2), inner.pd is referred to at (20,30)
\* in sub.pd, and sub.pd at (p,q) in main.pd: the bang is at (21+p, 32+q)
C22_OffsetsAccumulate ==
    RefersToSub =>
        \A objs \in Returned("main.pd") :
            LET p == Thousandths(disk.line.x)
                q == Thousandths(disk.line.y)
                inner == objs[2].children[3]
            IN  /\ inner.type = "SUBPATCH"
                /\ Len(inner.children) = 1
                /\ inner.children[1].type = "BANG"
                /\ inner.children[1].position = Vec(21000 + p, 32000 + q)

\* C23 as stated: no extractor reads a token position the line does not
\* have.  What lies past the last token of a line is then without effect:
\* whatever a read past the end would do, parseLine gives one and the same
\* outcome for the line it is about to parse (for a cnv line of exactly 7
\* tokens in particular)
C23_NoReadPastTheEnd ==
    (/\ stack # <<>>
     /\ fault = "none"
     /\ Top.idx <= Len(ofBufferFromFile(Top.file)))
    => \A u1, u2 \in UBOutcomes :
           parseLine(ofBufferFromFile(Top.file)[Top.idx], u1)
               = parseLine(ofBufferFromFile(Top.file)[Top.idx], u2)

\* the colour of a label is what C24 states for the token at index i of the
\* line under test: the default without such a token, the bytes of a
\* well-formed '#RRGGBB', the gray (128,128,128) for a token of another
\* length or without '#'
ColourAsStated(colour, i, default) ==
    LET tokens == Take(Tokens(disk.line), disk.line.n)
    IN  IF Len(tokens) <= i THEN colour = default
        ELSE LET tok == Tok(tokens, i)
             IN  IF WellFormedHex(tok)
                 THEN colour = <<ByteOf(tok, 2), ByteOf(tok, 4), ByteOf(tok, 6)>>
                 ELSE (CharLen(tok) # 7 \/ tok[1] # "#") => colour = <<128, 128, 128>>

\* C24 as stated: a cnv line with its size fields yields a Label in every
\* case; its background (token 15) and text (token 16) colours are the
\* defaults (224,224,224) and (0,0,0) without the token, the RGB value of a
\* well-formed token, and the gray (128,128,128) for a malformed token
C24_LabelColours ==
    (disk.line.kind = "cnv" /\ disk.line.n >= 8) =>
        \A objs \in Returned("one.pd") :
            /\ Types(objs) = <<"UNKNOWN">>
            /\ ColourAsStated(objs[1].backgroundColor, 15, <<224, 224, 224>>)
            /\ ColourAsStated(objs[1].textColor, 16, <<0, 0, 0>>)

\* the toggles of guiObjects whose send symbol is bound
BoundToggles ==
    { i \in 1..Len(guiObjects) :
        /\ guiObjects[i].type = "TOGGLE"
        /\ guiObjects[i].sendSymbol \notin {"", "empty", "-"} }

\* the step is a mouse press the visible, enabled toggle t holds
PressedInside(t) ==
    /\ mouseEvents' = mouseEvents + 1
    /\ lastEvent'[1] = "mousePressed"
    /\ t.visible /\ t.enabled
    /\ isPointInside(t, lastEvent'[2])

\* what a step does to toggle i: a press inside it, while it is visible and
\* enabled, flips its value and calls the value callback once with the send
\* symbol and the new value; another press, a press while hidden or
\* disabled included, leaves the toggle as it is; no other step moves the
\* value or calls the callback
ToggleStep(i) ==
    LET t == guiObjects[i]
        after == guiObjects'[i]
    IN  IF PressedInside(t)
        THEN /\ after.currentValue = 1000 - t.currentValue
             /\ after.calls = Append(t.calls, <<t.onSendToPd, t.sendSymbol,
                                                after.currentValue>>)
        ELSE /\ after.currentValue = t.currentValue
             /\ after.calls = t.calls
             /\ lastEvent'[1] = "mousePressed" => after = t

\* C25: every press inside a visible, enabled toggle with a bound send symbol
\* flips it between 0 and 1 and calls the value callback exactly once with
\* the send symbol and the new value, so that after n presses the value is
\* n mod 2; a press outside, or on a hidden or disabled toggle, changes
\* nothing and calls nothing
C25_TogglePresses ==
    /\ [](\A i \in BoundToggles :
             /\ guiObjects[i].currentValue = (Len(guiObjects[i].calls) % 2) * 1000
             /\ \A k \in 1..Len(guiObjects[i].calls) :
                    guiObjects[i].calls[k] =
                        <<"host", guiObjects[i].sendSymbol, (k % 2) * 1000>>)
    /\ [][\A i \in BoundToggles : ToggleStep(i)]_vars

\* C25 witness: a toggle has been pressed twice: it called the host with 1,
\* then with 0, and is off again
C25_Witness ==
    \E i \in BoundToggles :
        /\ Len(guiObjects[i].calls) = 2
        /\ guiObjects[i].calls[1][3] = 1000
        /\ guiObjects[i].calls[2][3] = 0
        /\ guiObjects[i].currentValue = 0

\* what a step does to the bang guiObjects[i]: trigger() and an accepted
\* press leave it triggered; an update() less than 300 ms after the last
\* trigger leaves it triggered, an update() 300 ms or more after it leaves it
\* inactive
BangStep(i) ==
    LET b == guiObjects[i]
        after == guiObjects'[i]
    IN  /\ after.triggeredAt # b.triggeredAt => after.triggered
        /\ (lastEvent'[1] = "update" /\ clock' = clock /\ b.triggered) =>
               (after.triggered <=> clock - b.triggeredAt < 300)

\* C26 as stated: after trigger() or an accepted press the bang is
\* triggered; it stays so at every update() less than 300 ms after the most
\* recent trigger and is inactive after the first update() 300 ms or more
\* after it; with update() called again and again while time passes, a
\* triggered bang is inactive in the end
C26_BangReturns ==
    /\ [][\A i \in 1..Len(guiObjects) : guiObjects[i].type = "BANG" => BangStep(i)]_vars
    /\ (guiObjects[1].triggered ~> ~ guiObjects[1].triggered)

\* what a press or a drag leaves in a widget until the release
InInteraction(w) ==
    w.mousePressed \/ w.isDragging \/ w.isDraggingKnob \/ w.isDraggingValue

\* C27: once ofApp::mouseReleased has been delivered, no widget, top-level or
\* child of a subpatch, is left in the pressed or dragging state, wherever
\* the pointer was released and whatever events came before
C27_ReleaseEndsAll ==
    lastEvent[1] = "mouseReleased" =>
        \A k \in 1..Len(Flatten(guiObjects)) : ~ InInteraction(Flatten(guiObjects)[k])

\* C28: the value of a slider or number box lies in its range after any
\* sequence of setValue, setValueRange(min, max) with min <= max, 'r' and 'a'
\* keys and mouse events
C28_ValueStaysInRange ==
    \A k \in 1..Len(Flatten(guiObjects)) :
        LET w == Flatten(guiObjects)[k]
        IN  w.type \in {"HORIZONTAL_SLIDER", "VERTICAL_SLIDER", "NUMBER_BOX"} =>
                w.minValue <= w.currentValue /\ w.currentValue <= w.maxValue

\* the names that stand for no channel
Unbound == {"", "empty", "-"}

DeclaredInSub ==
    << Vec(ofToFloat(W(disk.a)), ofToFloat(W(disk.b))),
       Vec(ofToFloat(W(disk.b)), ofToFloat(W(disk.a))),
       Vec(20000, 30000) >>

\* C30: after setOffset(x, y) on a subpatch every child is at its declared
\* local position plus (x, y), whatever the offset was before
C30_SetOffsetSets ==
    (lastEvent[1] = "setOffset" /\ guiObjects[lastEvent[2]].subpatchPath = "sub.pd") =>
        LET sub == guiObjects[lastEvent[2]]
        IN  /\ Len(sub.children) = Len(DeclaredInSub)
            /\ \A k \in 1..Len(sub.children) :
                   sub.children[k].position =
                       Vec(DeclaredInSub[k][1] + lastEvent[3],
                           DeclaredInSub[k][2] + lastEvent[4])

=============================================================================
